---- MODULE Spec2Model ----
(***************************************************************************)
(* Model of app.py: a FastAPI application with two GET routes, started by  *)
(* uvicorn on the port named by the PORT environment variable.             *)
(*                                                                         *)
(* Texts (the value of PORT) are sequences of one-character strings and    *)
(* URL paths are sequences of tokens ("/" and path segments), so that      *)
(* int(), rstrip("/") and the route match are computed, not assumed.       *)
(***************************************************************************)
EXTENDS Integers, Sequences, FiniteSets, Bags, TLC

\* ------------------------------------------------------------------ bounds
\* longest generated PORT text (all texts over GenChars up to this length)
MaxLen == 2
\* requests received in one run of the startup specification
MaxRequests == 2
\* requests received in one run of the routing specification
MaxRouted == 1
\* requests received in one run of the history specification
MaxHistory == 3

\* --------------------------------------------------------------- constants
DefaultPort == 8000
MaxPort == 65535

VARIABLES
    os_environ,    \* the process environment: a function on a subset of {"PORT"}
    unavailable,   \* ports the operating system refuses to bind (in use)
    loop,          \* the event loop uvicorn selects: "asyncio" or "uvloop"
    pc,            \* position of the process in app.py
    frame,         \* __name__ of the module whose body ran last
    modules,       \* sys.modules restricted to app.py: name -> application
    mainRuns,      \* the __name__ of every execution of the line-18 block
    port,          \* the local variable `port` of the __main__ block
    listeners,     \* the sockets the process has bound: [host, port]
    state,         \* lifecycle: "Stopped" or "Running"
    exitError,     \* the exception that ended the process, or "none"
    inflight,      \* bag of requests received and not yet answered
    log            \* answered requests, in order of completion

vars == <<os_environ, unavailable, loop, pc, frame, modules, mainRuns, port,
          listeners, state, exitError, inflight, log>>

\* ------------------------------------------------------------ text of PORT
Digit == {"0", "1", "2", "3", "4", "5", "6", "7", "8", "9"}

DigitVal(c) ==
    CASE c = "0" -> 0 [] c = "1" -> 1 [] c = "2" -> 2 [] c = "3" -> 3
      [] c = "4" -> 4 [] c = "5" -> 5 [] c = "6" -> 6 [] c = "7" -> 7
      [] c = "8" -> 8 [] c = "9" -> 9

Whitespace == {" "}

RECURSIVE LStrip(_)
LStrip(s) ==
    IF s # <<>> /\ Head(s) \in Whitespace THEN LStrip(Tail(s)) ELSE s

RECURSIVE RStrip(_)
RStrip(s) ==
    IF s # <<>> /\ s[Len(s)] \in Whitespace
    THEN RStrip(SubSeq(s, 1, Len(s) - 1))
    ELSE s

\* The digit scanner of int(): digits, with single underscores allowed only
\* between two digits.  prev is the character consumed before s ("" at the
\* start); acc is the value so far.  Returns <<ok, value>>.
RECURSIVE ScanDigits(_, _, _)
ScanDigits(s, prev, acc) ==
    IF s = <<>>
    THEN <<prev \in Digit, acc>>
    ELSE LET c == Head(s) IN
         IF c \in Digit
         THEN ScanDigits(Tail(s), c, acc * 10 + DigitVal(c))
         ELSE IF c = "_" /\ prev \in Digit
              THEN ScanDigits(Tail(s), c, acc)
              ELSE <<FALSE, 0>>

\* int(x) for x a str: strip, optional sign, digits.  ok = FALSE is ValueError.
ParseIntMissingIsDefault(text) ==
    LET s == RStrip(LStrip(text))
        signed == s # <<>> /\ Head(s) \in {"+", "-"}
        body == IF signed THEN Tail(s) ELSE s
        r == ScanDigits(body, "", 0)
    IN  IF s = <<>> THEN [ok |-> TRUE, val |-> DefaultPort]
        ELSE IF ~r[1] THEN [ok |-> FALSE, val |-> 0]
        ELSE [ok |-> TRUE, val |-> IF signed /\ Head(s) = "-" THEN 0 - r[2] ELSE r[2]]

ParseInt(text) ==
    LET s == RStrip(LStrip(text))
        signed == s # <<>> /\ Head(s) \in {"+", "-"}
        body == IF signed THEN Tail(s) ELSE s
        r == ScanDigits(body, "", 0)
    IN  IF ~r[1] THEN [ok |-> FALSE, val |-> 0]
        ELSE [ok |-> TRUE, val |-> IF signed /\ Head(s) = "-" THEN 0 - r[2] ELSE r[2]]

\* os.environ.get("PORT", 8000): the text when set, else the int default
EnvironGet(environ, key, default) ==
    IF key \in DOMAIN environ
    THEN [kind |-> "str", text |-> environ[key], int |-> 0]
    ELSE [kind |-> "int", text |-> <<>>, int |-> default]

\* int(os.environ.get("PORT", 8000))
PortFromEnv(environ) ==
    LET v == EnvironGet(environ, "PORT", DefaultPort) IN
    IF v.kind = "int" THEN [ok |-> TRUE, val |-> v.int] ELSE ParseInt(v.text)

\* -------------------------------------------------------------- the routes
HelloMessage == "Hello from FastAPI on AKS!"

\* dicts are insertion-ordered sequences of <<key, value>>
rootOtherGreeting == << <<"message", "Hello from FastAPI!">> >>

rootCountsRequests ==
    << <<"message", IF Len(log) >= 2 THEN "Hello again!" ELSE HelloMessage>> >>

root == << <<"message", HelloMessage>> >>

healthzBusy ==
    << <<"status", IF BagCardinality(inflight) > 1 THEN "busy" ELSE "ok">> >>

healthz == << <<"status", "ok">> >>

Quote(s) == "\"" \o s \o "\""

\* JSONResponse.render: json.dumps(content, separators=(",", ":"))
RECURSIVE RenderItems(_)
RenderItems(d) ==
    IF d = <<>> THEN <<>>
    ELSE <<Quote(d[1][1]), ":", Quote(d[1][2])>>
         \o (IF Len(d) > 1 THEN <<",">> ELSE <<>>)
         \o RenderItems(Tail(d))

Render(d) == <<"{">> \o RenderItems(d) \o <<"}">>

RootPath == <<"/">>
HealthzPath == <<"/", "healthz">>
OpenapiPath == <<"/", "openapi.json">>
DocsPath == <<"/", "docs">>
OAuth2RedirectPath == <<"/", "docs", "/", "oauth2-redirect">>
RedocPath == <<"/", "redoc">>

\* Starlette's Route (used by FastAPI.setup through add_route): methods
\* default to GET, and HEAD is added whenever GET is allowed
StarletteRoute(path, endpoint) ==
    [path |-> path, methods |-> {"GET", "HEAD"}, endpoint |-> endpoint]

\* FastAPI's APIRoute (used by @app.get): exactly the decorator's method
APIRouteAddsHead(path, methods, endpoint) ==
    [path |-> path,
     methods |-> IF "GET" \in methods THEN methods \cup {"HEAD"} ELSE methods,
     endpoint |-> endpoint]

APIRoute(path, methods, endpoint) ==
    [path |-> path, methods |-> methods, endpoint |-> endpoint]

\* app = FastAPI(): the constructor's setup() registers the documentation
\* routes (openapi_url, docs_url, oauth2 redirect, redoc_url defaults)
FastAPI ==
    [routes |-> << StarletteRoute(OpenapiPath, "openapi"),
                   StarletteRoute(DocsPath, "swagger_ui_html"),
                   StarletteRoute(OAuth2RedirectPath, "swagger_ui_redirect"),
                   StarletteRoute(RedocPath, "redoc_html") >>]

\* @app.get(path) applied to a function
AppGet(app, path, endpoint) ==
    [app EXCEPT !.routes = Append(@, APIRoute(path, {"GET"}, endpoint))]

\* lines 5-14: the module body up to the __main__ guard
ModuleBody ==
    AppGet(AppGet(FastAPI, RootPath, "root"), HealthzPath, "healthz")

\* ------------------------------------------------------------- the router
\* Route.matches for a path without parameters: the compiled regex is
\* "^" + escaped path + "$", and "$" also matches before one final newline;
\* a wrong method on a matching path is a partial match
PathRegexPrefixMatch(pattern, path) ==
    Len(path) >= Len(pattern) /\ SubSeq(path, 1, Len(pattern)) = pattern

PathRegexMatch(pattern, path) ==
    path = pattern \/ path = pattern \o <<"\n">>

Matches(route, req) ==
    IF ~PathRegexMatch(route.path, req.path) THEN "NONE"
    ELSE IF req.method \in route.methods THEN "FULL"
    ELSE "PARTIAL"

\* index of the first route whose match is in kinds, 0 when there is none
FirstMatch(routes, req, kinds) ==
    LET hits == {i \in 1..Len(routes) : Matches(routes[i], req) \in kinds} IN
    IF hits = {} THEN 0 ELSE CHOOSE i \in hits : \A j \in hits : i <= j

\* str.rstrip("/") on a path
RECURSIVE RStripSlash(_)
RStripSlash(path) ==
    IF path # <<>> /\ path[Len(path)] = "/"
    THEN RStripSlash(SubSeq(path, 1, Len(path) - 1))
    ELSE path

\* Router.app, redirect_slashes branch: the path with its trailing slashes
\* removed (or with one added)
RedirectPath(path) ==
    IF path[Len(path)] = "/" THEN RStripSlash(path) ELSE Append(path, "/")

\* the body each endpoint produces; the documentation pages are opaque
EndpointBody(endpoint) ==
    CASE endpoint = "root" -> Render(root)
      [] endpoint = "healthz" -> Render(healthz)
      [] endpoint = "openapi" -> <<"<openapi schema>">>
      [] endpoint = "swagger_ui_html" -> <<"<swagger ui>">>
      [] endpoint = "swagger_ui_redirect" -> <<"<oauth2 redirect>">>
      [] endpoint = "redoc_html" -> <<"<redoc>">>

NoPath == <<>>

\* Router.app of the application: full match, else partial match (405),
\* else slash redirect (307), else not found (404)
Respond(app, req) ==
    LET full == FirstMatch(app.routes, req, {"FULL"})
        partial == FirstMatch(app.routes, req, {"PARTIAL"})
        redirect == [req EXCEPT !.path = RedirectPath(req.path)]
    IN  IF full # 0
        THEN [status |-> 200, endpoint |-> app.routes[full].endpoint,
              body |-> IF req.method = "HEAD" THEN <<>>
                       ELSE EndpointBody(app.routes[full].endpoint),
              location |-> NoPath]
        ELSE IF partial # 0
        THEN [status |-> 405, endpoint |-> "none",
              body |-> Render(<< <<"detail", "Method Not Allowed">> >>),
              location |-> NoPath]
        ELSE IF req.path # RootPath
                /\ FirstMatch(app.routes, redirect, {"FULL", "PARTIAL"}) # 0
        THEN [status |-> 307, endpoint |-> "none", body |-> <<>>,
              location |-> redirect.path]
        ELSE [status |-> 404, endpoint |-> "none",
              body |-> Render(<< <<"detail", "Not Found">> >>),
              location |-> NoPath]

\* ---------------------------------------------------------- the input sets
Methods == {"GET", "POST", "PUT", "DELETE", "PATCH", "HEAD", "OPTIONS"}

Paths ==
    { RootPath, HealthzPath, OpenapiPath, DocsPath, OAuth2RedirectPath,
      RedocPath,
      <<"/", "healthz", "/">>, <<"/", "docs", "/">>, <<"/", "/">>,
      <<"/", "unknown">>, <<"/", "Healthz">>, <<"/", "healthz", "/", "x">>,
      <<"/", "healthz", "\n">> }

Request(method, path, query, body) ==
    [method |-> method, path |-> path, query |-> query, body |-> body]

\* every method on every path, and GET on the two routes with a query
\* string and a request body
Requests ==
    {Request(m, p, "", "") : m \in Methods, p \in Paths}
    \cup {Request("GET", p, q, b) : p \in {RootPath, HealthzPath},
                                     q \in {"", "message=bye&status=down"},
                                     b \in {"", "{\"status\":\"down\"}"}}

\* the requests of the history specification
RepeatRequests ==
    {Request("GET", p, "", "") : p \in {RootPath, HealthzPath}}
    \cup {Request("GET", p, "message=bye&status=down", "{\"status\":\"down\"}") :
             p \in {RootPath, HealthzPath}}
    \cup {Request("POST", RootPath, "", "{\"status\":\"down\"}"),
          Request("GET", <<"/", "unknown">>, "", "")}

\* the requests of the startup specification
ProbeRequests ==
    {Request("GET", RootPath, "", ""), Request("GET", HealthzPath, "", "")}

GenChars == {"0", "7", "-", "+", " ", "_", "a"}

GenTexts == UNION {[1..n -> GenChars] : n \in 0..MaxLen}

SampleTexts ==
    { <<"8","0","0","0">>, <<"9","0","0","0">>, <<"5","5","5","5">>,
      <<"a","b","c">>, <<"6","5","5","3","5">>, <<"6","5","5","3","6">>,
      <<"7","0","0","0","0">>, <<"-","1">>, <<" ","9","0","0","0"," ">>,
      <<"+","9","0","0","0">>, <<"9","_","0","0","0">>, <<"0","0","8","0">>,
      <<"9","0","0","0","a">>, <<"9","_","_","0">>, <<"8","0","8","0">> }

EmptyEnviron == [k \in {} |-> <<>>]

Environ(text) == [k \in {"PORT"} |-> text]

\* ports some other process may hold, and the ports the kernel hands out
\* for a bind to port 0
BusyCandidates == {8000, 9000, 7}

EphemeralPorts == {32768, 60999}

\* uvicorn.run leaves loop="auto": uvloop when it is installed, else asyncio
EventLoops == {"asyncio", "uvloop"}

\* ------------------------------------------------------------- the process
\* line 16: __name__ == "__main__"
IsMainAlways(name) == TRUE

IsMain(name) == name = "__main__"

\* executing app.py under the module name `name`: lines 5-14 build the
\* application, line 16 decides whether the startup block runs
LoadModule(name) ==
    /\ modules' = [n \in DOMAIN modules \cup {name} |->
                      IF n = name THEN ModuleBody ELSE modules[n]]
    /\ frame' = name
    /\ pc' = IF IsMain(name) THEN "main" ELSE "loaded"

\* `python app.py`: the interpreter runs the file as __main__
ExecMain ==
    /\ pc = "start"
    /\ LoadModule("__main__")
    /\ UNCHANGED <<os_environ, unavailable, loop, mainRuns, port, listeners, state,
                   exitError, inflight, log>>

\* line 18: port = int(os.environ.get("PORT", 8000)); a ValueError is not
\* caught and ends the process
ReadPortFallsBack ==
    /\ pc = "main"
    /\ mainRuns' = Append(mainRuns, frame)
    /\ LET r == PortFromEnv(os_environ) IN
       /\ port' = IF r.ok THEN r.val ELSE DefaultPort
       /\ pc' = "run"
       /\ UNCHANGED exitError
    /\ UNCHANGED <<os_environ, unavailable, loop, frame, modules, listeners, state,
                   inflight, log>>

ReadPort ==
    /\ pc = "main"
    /\ mainRuns' = Append(mainRuns, frame)
    /\ LET r == PortFromEnv(os_environ) IN
       IF r.ok
       THEN /\ port' = r.val
            /\ pc' = "run"
            /\ UNCHANGED exitError
       ELSE /\ pc' = "exited"
            /\ exitError' = "ValueError"
            /\ UNCHANGED port
    /\ UNCHANGED <<os_environ, unavailable, loop, frame, modules, listeners, state,
                   inflight, log>>

\* line 19, first half: uvicorn.run("app:app") imports the module `app`
\* (a module already in sys.modules is not executed again)
ImportApp ==
    /\ pc = "run"
    /\ IF "app" \in DOMAIN modules
       THEN /\ pc' = "loaded"
            /\ UNCHANGED <<modules, frame>>
       ELSE LoadModule("app")
    /\ UNCHANGED <<os_environ, unavailable, loop, mainRuns, port, listeners, state,
                   exitError, inflight, log>>

\* the 16-bit port number that reaches the socket: asyncio passes the
\* integer on unchanged, uvloop stores it in a 16-bit field
SockPort(p) == IF loop = "uvloop" THEN p % (MaxPort + 1) ELSE p

\* the port the kernel binds for a request to bind `p`: its choice for 0
BoundPortsDefault(p) == {DefaultPort}

BoundPorts(p) == IF SockPort(p) = 0 THEN EphemeralPorts ELSE {SockPort(p)}

\* the outcome of binding ("0.0.0.0", p): OverflowError outside 0..65535
\* (raised by socket.bind under asyncio), OSError when the port is taken,
\* else success
BindAnyInteger(p) ==
    IF SockPort(p) \in unavailable THEN "OSError" ELSE "ok"

BindOutcome(p) ==
    IF SockPort(p) < 0 \/ SockPort(p) > MaxPort THEN "OverflowError"
    ELSE IF SockPort(p) \in unavailable THEN "OSError"
    ELSE "ok"

\* line 19, second half: host="0.0.0.0", port=port; the server binds the
\* listener and serves; a failed bind ends the process
Bind ==
    /\ pc = "loaded"
    /\ IF BindOutcome(port) = "ok"
       THEN /\ \E p \in BoundPorts(port) :
                 listeners' = listeners \cup {[host |-> "0.0.0.0", port |-> p]}
            /\ state' = "Running"
            /\ pc' = "serving"
            /\ UNCHANGED exitError
       ELSE /\ pc' = "exited"
            /\ exitError' = BindOutcome(port)
            /\ UNCHANGED <<listeners, state>>
    /\ UNCHANGED <<os_environ, unavailable, loop, frame, modules, mainRuns, port,
                   inflight, log>>

\* a request arrives on the listener; cap bounds the requests of one run
Receive(req, cap) ==
    /\ state = "Running"
    /\ listeners # {}
    /\ Len(log) + BagCardinality(inflight) < cap
    /\ inflight' = inflight (+) SetToBag({req})
    /\ UNCHANGED <<os_environ, unavailable, loop, pc, frame, modules, mainRuns,
                   port, listeners, state, exitError, log>>

\* the application imported by the server answers one pending request
Answer(req) ==
    /\ state = "Running"
    /\ BagIn(req, inflight)
    /\ inflight' = inflight (-) SetToBag({req})
    /\ log' = Append(log, [req |-> req, resp |-> Respond(modules["app"], req)])
    /\ UNCHANGED <<os_environ, unavailable, loop, pc, frame, modules, mainRuns,
                   port, listeners, state, exitError>>

\* the platform's shutdown signal: the server finishes the pending requests,
\* closes the listener and uvicorn.run returns
Terminate ==
    /\ pc = "serving"
    /\ inflight = EmptyBag
    /\ pc' = "exited"
    /\ state' = "Stopped"
    /\ listeners' = {}
    /\ UNCHANGED <<os_environ, unavailable, loop, frame, modules, mainRuns, port,
                   exitError, inflight, log>>

\* ------------------------------------------------------ the specifications
InitProcess ==
    /\ pc = "start"
    /\ frame = "none"
    /\ modules = [n \in {} |-> ModuleBody]
    /\ mainRuns = <<>>
    /\ port = 0
    /\ listeners = {}
    /\ state = "Stopped"
    /\ exitError = "none"
    /\ inflight = EmptyBag
    /\ log = <<>>

\* startup: every PORT text of the bounded sets, every set of taken ports
Init ==
    /\ os_environ \in {EmptyEnviron} \cup {Environ(t) : t \in GenTexts \cup SampleTexts}
    /\ unavailable \in SUBSET BusyCandidates
    /\ loop \in EventLoops
    /\ InitProcess

Next ==
    \/ ExecMain
    \/ ReadPort
    \/ ImportApp
    \/ Bind
    \/ \E req \in ProbeRequests : Receive(req, MaxRequests)
    \/ \E req \in ProbeRequests : Answer(req)
    \/ Terminate

Spec == Init /\ [][Next]_vars

\* the interpreter and the server always take their next startup step
FairSpec == Spec /\ WF_vars(ExecMain \/ ReadPort \/ ImportApp \/ Bind)

\* routing: every request of Requests, a few environments
InitRouting ==
    /\ os_environ \in {EmptyEnviron, Environ(<<"a","b","c">>)}
    /\ unavailable \in {{}, {8000}}
    /\ loop \in EventLoops
    /\ InitProcess

NextRouting ==
    \/ ExecMain
    \/ ReadPort
    \/ ImportApp
    \/ Bind
    \/ \E req \in Requests : Receive(req, MaxRouted)
    \/ \E req \in Requests : Answer(req)
    \/ Terminate

SpecRouting == InitRouting /\ [][NextRouting]_vars

\* history: longer runs over the requests of RepeatRequests
NextHistory ==
    \/ ExecMain
    \/ ReadPort
    \/ ImportApp
    \/ Bind
    \/ \E req \in RepeatRequests : Receive(req, MaxHistory)
    \/ \E req \in RepeatRequests : Answer(req)
    \/ Terminate

SpecHistory == InitRouting /\ [][NextHistory]_vars

TypeOK ==
    /\ pc \in {"start", "main", "run", "loaded", "serving", "exited"}
    /\ state \in {"Stopped", "Running"}
    /\ exitError \in {"none", "ValueError", "OverflowError", "OSError"}
    /\ loop \in EventLoops
    /\ DOMAIN modules \subseteq {"__main__", "app"}
    /\ port \in Int

\* ================================================================ claims
Entries == {log[i] : i \in 1..Len(log)}

PortIsSet == "PORT" \in DOMAIN os_environ

PortText == os_environ["PORT"]

Listener(p) == [host |-> "0.0.0.0", port |-> p]

HelloBody == <<"{", "\"message\"", ":", "\"Hello from FastAPI on AKS!\"", "}">>

OkBody == <<"{", "\"status\"", ":", "\"ok\"", "}">>

\* C1: while the server is Running, every GET request for the path "/" is
\* answered 200 by the root handler with the JSON object
\* {"message": "Hello from FastAPI on AKS!"}, whatever query or body it has,
\* and answers are produced only while Running.
C1_RootAlways200 ==
    /\ log # <<>> => state = "Running" \/ pc = "exited"
    /\ \A e \in Entries :
          e.req.method = "GET" /\ e.req.path = RootPath =>
             /\ e.resp.status = 200
             /\ e.resp.endpoint = "root"
             /\ e.resp.body = HelloBody

C1_Witness ==
    \E e \in Entries :
       /\ e.req.method = "GET" /\ e.req.path = RootPath
       /\ e.req.query # "" /\ e.req.body # ""
       /\ e.resp.status = 200 /\ e.resp.body = HelloBody

\* C2: every GET request for "/healthz" is answered 200 with the JSON object
\* {"status": "ok"}, whatever the request carries and whatever requests were
\* answered before it or are pending with it.
C2_HealthzAlwaysOk ==
    \A e \in Entries :
       e.req.method = "GET" /\ e.req.path = HealthzPath =>
          /\ e.resp.status = 200
          /\ e.resp.endpoint = "healthz"
          /\ e.resp.body = OkBody

C2_Witness ==
    /\ Len(log) >= 3
    /\ log[3].req.method = "GET" /\ log[3].req.path = HealthzPath
    /\ log[3].req.body # ""
    /\ log[3].resp.status = 200 /\ log[3].resp.body = OkBody
    /\ log[1].req.path = HealthzPath /\ log[1].req.method = "GET"
    /\ log[2].resp.status # 200

AnsweredPaths ==
    {RootPath, HealthzPath, OpenapiPath, DocsPath, OAuth2RedirectPath, RedocPath}

\* p is an answered path, possibly followed by one line feed
NamesAnswered(p) ==
    \/ p \in AnsweredPaths
    \/ /\ p # <<>>
       /\ p[Len(p)] = "\n"
       /\ SubSeq(p, 1, Len(p) - 1) \in AnsweredPaths

C4_WrongMethodIs405 ==
    \A e \in Entries :
       e.req.path \in {RootPath, HealthzPath} /\ e.req.method # "GET" =>
          e.resp.status = 405 /\ e.resp.endpoint = "none"

C4_Witness ==
    \E e \in Entries :
       /\ e.req.path = HealthzPath /\ e.req.method = "HEAD"
       /\ e.resp.status = 405 /\ e.resp.endpoint = "none"

\* ------------------------------------------------------- startup claims
DigitChar(d) ==
    CASE d = 0 -> "0" [] d = 1 -> "1" [] d = 2 -> "2" [] d = 3 -> "3"
      [] d = 4 -> "4" [] d = 5 -> "5" [] d = 6 -> "6" [] d = 7 -> "7"
      [] d = 8 -> "8" [] d = 9 -> "9"

\* the decimal text of an integer, as str(n) writes it
RECURSIVE ToDecimal(_)
ToDecimal(n) ==
    IF n < 0 THEN <<"-">> \o ToDecimal(0 - n)
    ELSE IF n < 10 THEN <<DigitChar(n)>>
    ELSE ToDecimal(n \div 10) \o <<DigitChar(n % 10)>>

\* the integers whose decimal text is compared with PORT
CheckedInts == (-99..999) \cup {5555, 8000, 8080, 9000, 65535, 65536, 70000}

DecimalOf == [n \in CheckedInts |-> ToDecimal(n)]

\* a text is an integer literal when, between its outer blanks, it is an
\* optional sign followed by digits separated by at most single underscores
Core(t) ==
    LET marks == {i \in 1..Len(t) : t[i] # " "} IN
    IF marks = {} THEN <<>>
    ELSE SubSeq(t, CHOOSE i \in marks : \A j \in marks : i <= j,
                   CHOOSE i \in marks : \A j \in marks : i >= j)

Unsigned(t) ==
    IF t # <<>> /\ t[1] \in {"+", "-"} THEN SubSeq(t, 2, Len(t)) ELSE t

IsIntegerLiteral(t) ==
    LET u == Unsigned(Core(t)) IN
    /\ u # <<>>
    /\ \A i \in 1..Len(u) : u[i] \in Digit \cup {"_"}
    /\ u[1] \in Digit /\ u[Len(u)] \in Digit
    /\ \A i \in 1..(Len(u) - 1) : ~(u[i] = "_" /\ u[i + 1] = "_")

\* C5 (as stated): every listener is on host 0.0.0.0 and on the port chosen
\* from the environment: 8000 when PORT is unset, n when PORT is the decimal
\* text of the integer n; a Running server has a listener.
C5_Original ==
    /\ state = "Running" => listeners # {}
    /\ \A l \in listeners :
          /\ l.host = "0.0.0.0"
          /\ ~PortIsSet => l.port = DefaultPort
          /\ \A n \in CheckedInts :
                PortIsSet /\ PortText = DecimalOf[n] => l.port = n

\* C5 (amended): there is at most one listener, on host 0.0.0.0; its port is
\* 8000 when PORT is unset and n when PORT is the decimal text of an integer
\* n in 1..65535; when PORT is "0" the port is one the operating system
\* chose; the bound port is always within 1..65535, so an integer outside
\* 0..65535 is never the bound port; a Running server has its listener.
C5_BoundPort ==
    /\ state = "Running" => listeners # {}
    /\ Cardinality(listeners) <= 1
    /\ \A l \in listeners :
          /\ l.host = "0.0.0.0"
          /\ ~PortIsSet => l.port = DefaultPort
          /\ \A n \in CheckedInts :
                PortIsSet /\ PortText = DecimalOf[n] =>
                   /\ n \in 1..MaxPort => l.port = n
                   /\ n = 0 => l.port \in EphemeralPorts
                   /\ n \notin 0..MaxPort => l.port # n
          /\ l.port \in 1..MaxPort

C5_Witness ==
    /\ PortIsSet /\ PortText = <<"5","5","5","5">>
    /\ listeners = {Listener(5555)}
    /\ state = "Running"
    /\ log # <<>>

\* C6: when PORT is set to a text that is not an integer literal (such as
\* "abc" or the empty text) the process ends with ValueError at the parse:
\* it never binds, never is Running, never receives or answers a request,
\* runs the startup block once and never assigns the port.
C6_BadPortIsFatal ==
    PortIsSet /\ ~IsIntegerLiteral(PortText) =>
       /\ listeners = {}
       /\ state = "Stopped"
       /\ log = <<>> /\ inflight = EmptyBag
       /\ pc \in {"start", "main", "exited"}
       /\ pc = "exited" => exitError = "ValueError"
       /\ Len(mainRuns) <= 1
       /\ port = 0

C6_Witness ==
    /\ PortIsSet /\ PortText \in {<<"a","b","c">>, <<>>}
    /\ pc = "exited" /\ exitError = "ValueError"
    /\ 8000 \notin unavailable

\* C7: the answer depends only on the method and the path: in any run, two
\* answered requests with the same method and path got the same status and
\* the same body, whatever else they carried, whatever was answered in
\* between and whatever was pending.
C7_SameRequestSameAnswer ==
    \A i, j \in 1..Len(log) :
       log[i].req.method = log[j].req.method /\ log[i].req.path = log[j].req.path
          => log[i].resp = log[j].resp

C7_Witness ==
    /\ Len(log) >= 3
    /\ log[1].req.method = "GET" /\ log[1].req.path = RootPath
    /\ log[3].req.method = "GET" /\ log[3].req.path = RootPath
    /\ log[1].req # log[3].req
    /\ log[2].req.path # RootPath
    /\ log[1].resp.body = log[3].resp.body

\* C8: the lifecycle has the two states Stopped and Running and starts
\* Stopped; the server becomes Running only from Stopped, by the bind step,
\* with PORT parsed (or unset) and a listener bound; once Running it leaves
\* Running only by termination from outside, and until then the port, the
\* listener and the number of startup runs do not change; requests are
\* received and answered only while Running.
C8_Step ==
    /\ state # "Running" /\ state' = "Running" =>
          /\ state = "Stopped" /\ pc = "loaded"
          /\ ~PortIsSet \/ IsIntegerLiteral(PortText)
          /\ listeners = {} /\ listeners' # {}
    /\ state = "Running" =>
          /\ UNCHANGED <<port, mainRuns, os_environ>>
          /\ state' = "Running" => UNCHANGED listeners
          /\ state' # "Running" =>
                state' = "Stopped" /\ pc' = "exited" /\ exitError' = "none"
    /\ log' # log \/ inflight' # inflight => state = "Running" /\ state' = "Running"

C8_Lifecycle ==
    /\ state = "Stopped"
    /\ [](state \in {"Stopped", "Running"})
    /\ [][C8_Step]_vars

C8_Witness ==
    /\ pc = "exited" /\ exitError = "none"
    /\ state = "Stopped"
    /\ Len(log) >= 2

\* the integer PORT stands for: 8000 when unset
PortParses == ~PortIsSet \/ IsIntegerLiteral(PortText)

Chosen == PortFromEnv(os_environ).val

\* C9 (as stated): the process ends with an error only when PORT is not an
\* integer or the port is in use; for every other PORT a serving process is
\* bound to exactly the port PORT names, 0 and out-of-range values included.
C9_Original ==
    /\ pc = "exited" /\ exitError # "none" =>
          ~PortParses \/ Chosen \in unavailable
    /\ pc = "serving" /\ PortParses => listeners = {Listener(Chosen)}

OutOfRange == PortParses /\ Chosen \notin 0..MaxPort

C9_Failures ==
    /\ pc = "exited" /\ exitError = "ValueError" => ~PortParses
    /\ pc = "exited" /\ exitError = "OverflowError" => OutOfRange
    /\ pc = "exited" /\ exitError = "OSError" =>
          PortParses /\ (Chosen \in unavailable \/ OutOfRange)
    /\ ~PortParses \/ Chosen \in unavailable =>
          state = "Stopped" /\ listeners = {}
    /\ OutOfRange => Listener(Chosen) \notin listeners
    /\ Len(mainRuns) <= 1
    /\ pc = "serving" /\ Chosen \in 1..MaxPort => listeners = {Listener(Chosen)}
    /\ pc = "serving" /\ PortParses /\ Chosen = 0 =>
          \E p \in EphemeralPorts : listeners = {Listener(p)}

CanStart == PortParses /\ Chosen \in 0..MaxPort /\ Chosen \notin unavailable

MustFail == ~PortParses \/ Chosen \in unavailable

\* C9 (amended): startup fails, fatally and without retry, when PORT is not
\* an integer (ValueError) and when the port is in use (OSError); an
\* integer outside 0..65535 is never bound as such: the bind raises
\* OverflowError, or an event loop that keeps 16 bits of the number binds
\* (or fails to bind) another port.  For every PORT that parses as an
\* integer in 1..65535 and is not in use the server reaches Running bound
\* to exactly that port, and for PORT 0 it reaches Running bound to a port
\* the operating system chose.
C9_StartupFailures ==
    /\ []C9_Failures
    /\ (pc = "start" /\ CanStart) ~> (state = "Running")
    /\ (pc = "start" /\ MustFail) ~> (pc = "exited" /\ exitError # "none")

C9_Witness ==
    /\ PortIsSet /\ PortText = <<"6","5","5","3","5">>
    /\ pc = "serving" /\ listeners = {Listener(65535)}
    /\ unavailable = {8000, 9000}

\* the routes a module body adds to the application it creates
OwnRoutes(app) ==
    {app.routes[i] : i \in (Len(FastAPI.routes) + 1)..Len(app.routes)}

C10_State ==
    /\ Len(mainRuns) <= 1
    /\ \A i \in 1..Len(mainRuns) : mainRuns[i] = "__main__"
    /\ Cardinality(listeners) <= 1
    /\ listeners # {} => mainRuns = <<"__main__">>
    /\ \A n \in DOMAIN modules :
          OwnRoutes(modules[n]) =
             {[path |-> RootPath, methods |-> {"GET"}, endpoint |-> "root"],
              [path |-> HealthzPath, methods |-> {"GET"}, endpoint |-> "healthz"]}

C10_Step ==
    "app" \notin DOMAIN modules /\ "app" \in DOMAIN modules' =>
       /\ UNCHANGED <<port, mainRuns, listeners, state, os_environ>>
       /\ pc' = "loaded"
       /\ \A n \in DOMAIN modules : modules'[n] = modules[n]

\* C10: the startup block (read PORT, parse it, start the listener) runs
\* only in the module executed as __main__ and at most once per process;
\* importing the module as `app` creates an application with the two routes
\* "/" and "/healthz" and changes neither the port, nor the count of
\* startup runs, nor the listeners.
C10_MainOnly ==
    /\ []C10_State
    /\ [][C10_Step]_vars

C10_Witness ==
    /\ DOMAIN modules = {"__main__", "app"}
    /\ mainRuns = <<"__main__">>
    /\ Cardinality(listeners) = 1
    /\ state = "Running"

====
